---- MODULE Spec2Model ----
(***************************************************************************)
(* Model of si/units/__init__.py: the atomic unit descriptor (SIUnit), the *)
(* compound unit (SICompoundUnit), its expression parser                   *)
(* (decomposition_from_pure_string), its renderers (__str__, tex) and its  *)
(* operator algebra (__mul__, __div__, __pow__ and their reflections).     *)
(*                                                                         *)
(* Python strings are sequences of one-character strings.  Numbers that    *)
(* are prefix factors are exact rationals [num, den].                      *)
(***************************************************************************)
EXTENDS Integers, Sequences, FiniteSets, TLC

\* ------------------------------------------------------------------ bounds
\* Longest input string drawn exhaustively from Alphabet.
MaxLen == 4
\* Longest result list a parser frame may grow to (only a non-terminating
\* parse can reach it: every appended triple otherwise consumes a character
\* of an input of at most 7 characters).
MaxResult == 8
\* Longest compound value the algebra actions build.
MaxTerms == 3
\* Largest exponent magnitude handed to __pow__ and kept in a value.
MaxExp == 2

\* ------------------------------------------------------- python primitives
\* s[a:b] for 0 <= a, any b (a negative b counts from the end).
PySlice(s, a, b) ==
    LET n  == Len(s)
        bb == IF b < 0 THEN (IF b + n < 0 THEN 0 ELSE b + n)
              ELSE (IF b > n THEN n ELSE b)
        aa == IF a > n THEN n ELSE a
    IN  IF aa >= bb THEN <<>> ELSE SubSeq(s, aa + 1, bb)

\* s[a:]
PyFrom(s, a) == PySlice(s, a, Len(s))

\* s.find(c): 0-based index of the first c, -1 when absent.
PyFind(s, c) ==
    IF \E i \in 1..Len(s) : s[i] = c
    THEN (CHOOSE i \in 1..Len(s) : s[i] = c /\ \A j \in 1..(i-1) : s[j] # c) - 1
    ELSE -1

\* s.startswith(c) for a one-character c.
StartsWith(s, c) == Len(s) > 0 /\ s[1] = c

Digits == {"0","1","2","3","4","5","6","7","8","9"}

\* int(c) of one decimal digit character.
DigitValue(c) ==
    CASE c = "0" -> 0 [] c = "1" -> 1 [] c = "2" -> 2 [] c = "3" -> 3
      [] c = "4" -> 4 [] c = "5" -> 5 [] c = "6" -> 6 [] c = "7" -> 7
      [] c = "8" -> 8 [] c = "9" -> 9

DigitChar(n) ==
    CASE n = 0 -> "0" [] n = 1 -> "1" [] n = 2 -> "2" [] n = 3 -> "3"
      [] n = 4 -> "4" [] n = 5 -> "5" [] n = 6 -> "6" [] n = 7 -> "7"
      [] n = 8 -> "8" [] n = 9 -> "9"

RECURSIVE FormatNat(_)
\* '%s' % n for a natural number n.
FormatNat(n) ==
    IF n < 10 THEN <<DigitChar(n)>>
    ELSE FormatNat(n \div 10) \o <<DigitChar(n % 10)>>

\* '%s' % n for an integer.
FormatInt(n) == IF n < 0 THEN <<"-">> \o FormatNat(0 - n) ELSE FormatNat(n)

Letters ==
    {"a","b","c","d","e","f","g","h","i","j","k","l","m","n","o","p","q",
     "r","s","t","u","v","w","x","y","z","A","B","C","D","E","F","G","H",
     "I","J","K","L","M","N","O","P","Q","R","S","T","U","V","W","X","Y","Z"}

\* ---------------------------------------------------------------- rationals
RECURSIVE Gcd(_, _)
Gcd(a, b) == IF b = 0 THEN a ELSE Gcd(b, a % b)

Rat(n, d) == LET g == Gcd(n, d) IN [num |-> n \div g, den |-> d \div g]
RatMul(x, y) == Rat(x.num * y.num, x.den * y.den)
RatDiv(x, y) == Rat(x.num * y.den, x.den * y.num)
RatPow(x, k) == IF k = 1 THEN x ELSE IF k = 2 THEN RatMul(x, x)
                ELSE RatMul(x, RatMul(x, x))
One == Rat(1, 1)
Thousand == Rat(1000, 1)

\* ------------------------------------------------------------ si.prefixes
\* SIUnit.all_prefixes, restricted to the codes whose factor lies between
\* 1/1000 and 1000 (the list keeps the order of the source).
all_prefixes == << <<"k">>, <<"h">>, <<"d">>, <<"c">>, <<"m">>, <<"d","a">> >>

\* getattr(si.prefixes, p): the factor of a prefix code.
PrefixValue(p) ==
    CASE p = <<"k">>     -> Rat(1000, 1)
      [] p = <<"h">>     -> Rat(100, 1)
      [] p = <<"d","a">> -> Rat(10, 1)
      [] p = <<"d">>     -> Rat(1, 10)
      [] p = <<"c">>     -> Rat(1, 100)
      [] p = <<"m">>     -> Rat(1, 1000)

PrefixCodes == {all_prefixes[i] : i \in DOMAIN all_prefixes}

\* si.prefixes.prefix_from_value(value): the code whose factor is value.
prefix_from_value(v) == CHOOSE p \in PrefixCodes : PrefixValue(p) = v

\* ------------------------------------------------------------------ SIUnit
\* The catalogue of atomic units the registry holds.  A symbol or name is
\* [text, unicode]: its characters and whether it is a unicode object.
Txt(s) == [text |-> s, unicode |-> FALSE]
UTxt(s) == [text |-> s, unicode |-> TRUE]
PrefixAll == [style |-> "True", list |-> <<>>]
PrefixKg == [style |-> "kg", list |-> <<>>]

SIUnits ==
    [ metre    |-> [symbol |-> << Txt(<<"m">>) >>,
                    name |-> << Txt(<<"m","e","t","r","e">>) >>,
                    prefixes |-> PrefixAll],
      second   |-> [symbol |-> << Txt(<<"s">>) >>,
                    name |-> << Txt(<<"s","e","c","o","n","d">>) >>,
                    prefixes |-> PrefixAll],
      kilogram |-> [symbol |-> << Txt(<<"k","g">>) >>,
                    name |-> << Txt(<<"k","i","l","o","g","r","a","m">>) >>,
                    prefixes |-> PrefixKg],
      newton   |-> [symbol |-> << Txt(<<"N">>) >>,
                    name |-> << Txt(<<"n","e","w","t","o","n">>) >>,
                    prefixes |-> PrefixAll],
      ohm      |-> [symbol |-> << UTxt(<<"OMEGA">>),
                                  Txt(<<"$","\\","O","m","e","g","a","$">>) >>,
                    name |-> << Txt(<<"o","h","m">>) >>,
                    prefixes |-> PrefixAll],
      fortnight |-> [symbol |-> <<>>,
                    name |-> << Txt(<<"f","o","r","t","n","i","g","h","t">>) >>,
                    prefixes |-> PrefixAll] ]

UnitNames == DOMAIN SIUnits

\* SIUnit._istex
_istex(s) == Len(s.text) > 0 /\ s.text[1] = "$" /\ s.text[Len(s.text)] = "$"

\* SIUnit._valid_python_name
_valid_python_name(s) ==
    /\ Len(s.text) > 0
    /\ s.text[1] \in Letters \cup {"_"}
    /\ \A i \in 1..Len(s.text) : s.text[i] \in Letters \cup Digits \cup {"_"}

\* SIUnit.get_python_names, as the list the generator yields (<<>> stands
\* for the exception of a unit without any usable name).
get_python_names(u) ==
    LET syms  == SelectSeq(SIUnits[u].symbol, _valid_python_name)
        names == SelectSeq(SIUnits[u].name, _valid_python_name)
    IN  IF Len(syms) > 0 THEN syms
        ELSE IF Len(names) > 0 THEN <<names[1]>> ELSE <<>>

\* SIUnit.preferred_symbol(allow_unicode); <<>> stands for the exception of
\* a unit without any form that qualifies.
preferred_symbol(u, allow_unicode) ==
    LET all == SIUnits[u].symbol \o SIUnits[u].name
        Ok(s) == IF allow_unicode THEN ~_istex(s)
                 ELSE ~s.unicode /\ ~_istex(s)
        ok  == SelectSeq(all, Ok)
    IN  IF Len(ok) > 0 THEN ok[1].text ELSE <<>>

\* SIUnit.tex
UnitTex(u) ==
    LET t == SelectSeq(SIUnits[u].symbol, _istex)
    IN  IF Len(t) > 0 THEN PySlice(t[1].text, 1, -1)
        ELSE preferred_symbol(u, FALSE)

\* SIUnit.get_prefixed: the list of (name, value) pairs, each value given
\* as its ratio to self.unit.
get_prefixed(u) ==
    LET pol == SIUnits[u].prefixes
        Others(c) == SelectSeq(all_prefixes, LAMBDA p : p # c)
        g == RatDiv(One, Thousand)
        Styled(sfx, k) ==
            [i \in 1..Len(all_prefixes) |->
                <<all_prefixes[i] \o sfx, RatPow(PrefixValue(all_prefixes[i]), k)>>]
        prefixes == IF pol.style = "True" THEN all_prefixes ELSE pol.list
        names == get_python_names(u)
        np == Len(prefixes)
    IN  IF pol.style = "False" THEN <<>>
        ELSE IF pol.style = "kg" THEN
            << <<(<<"g">>), g>> >> \o
            [i \in 1..Len(Others(<<"k">>)) |->
                <<Others(<<"k">>)[i] \o <<"g">>,
                  RatMul(g, PrefixValue(Others(<<"k">>)[i]))>>]
        ELSE IF pol.style = "m2" THEN Styled(<<"m","2">>, 2)
        ELSE IF pol.style = "m3" THEN Styled(<<"m","3">>, 3)
        ELSE [i \in 1..(Len(names) * np) |->
                LET n == names[((i - 1) \div np) + 1]
                    p == prefixes[((i - 1) % np) + 1]
                IN  <<p \o n.text, PrefixValue(p)>>]

\* ------------------------------------------------------------- si.register
\* The registry's table: every symbol and name of a unit with factor 1,
\* every prefixed spelling get_prefixed lists, and every prefix code put
\* before a name of a unit that takes all prefixes ("aparsec", "ufortnight").
RegistryTable ==
    UNION { {<<SIUnits[u].symbol[i].text, One, u>> : i \in DOMAIN SIUnits[u].symbol}
            \cup {<<SIUnits[u].name[i].text, One, u>> : i \in DOMAIN SIUnits[u].name}
            \cup {<<p \o SIUnits[u].name[i].text, PrefixValue(p), u>> :
                      p \in {q \in PrefixCodes : SIUnits[u].prefixes.style = "True"},
                      i \in DOMAIN SIUnits[u].name}
            \cup {<<get_prefixed(u)[i][1], get_prefixed(u)[i][2], u>> :
                      i \in DOMAIN get_prefixed(u)} : u \in UnitNames }

\* Whether si.register.search_prefixed(tok) returns (no LookupError).
Resolves(tok) == \E e \in RegistryTable : e[1] = tok

\* si.register.search_prefixed(tok): the (prefix factor, unit) pair.
search_prefixed(tok) ==
    LET e == CHOOSE e \in RegistryTable : e[1] = tok IN <<e[2], e[3]>>

\* ------------------------------------------------------ SICompoundUnit state
VARIABLES
    input,   \* the string handed to decomposition_from_pure_string
    stack,   \* the active calls, outermost first: [s, result, pospow] each
    status,  \* "running", "done", or the exception that ended the parse
    oper,    \* the operator applied last: "mul", "div" or "pow"
    lhs,     \* its left operand
    rhs,     \* its right operand
    value    \* what the expression evaluated to

vars == <<input, stack, status, oper, lhs, rhs, value>>

\* ------------------------------------------------------------------ values
\* What a Python expression over units evaluates to: an SIUnit (u names
\* it), an SICompoundUnit (t holds its triples), an int (n), or one of the
\* two signals NotImplemented and TypeError.
Val(kind, u, t, n) == [kind |-> kind, u |-> u, t |-> t, n |-> n]
NoValue == Val("none", "", <<>>, 0)
SIUnit(u) == Val("unit", u, <<>>, 0)
\* SICompoundUnit.__new__ on a sequence of triples
SICompoundUnit(t) == Val("compound", "", t, 0)
PyInt(n) == Val("int", "", <<>>, n)
NotImplemented == Val("NotImplemented", "", <<>>, 0)
TypeError == Val("TypeError", "", <<>>, 0)

\* ------------------------------------------- decomposition_from_pure_string
\* The characters the exhaustive inputs are drawn from.
Alphabet == {"*", " ", "/", "(", ")", "^", "0", "1", "2", "k", "g", "m", "s"}

\* Inputs longer than MaxLen, taken from the doctests and the examples of
\* the documentation.
Examples ==
    { <<"k","g","N","k","m","/","m">>,
      <<"m","/","m","s">>,
      <<"k","m","/","s">>,
      <<"/","m","g">>,
      <<"m","/","/","s">>,
      <<"(","m","/","s">>,
      <<"(","m","/","s",")","^","2">>,
      <<"/","(","m","/","s",")","^","2">>,
      <<"/","(","m","/","s",")">>,
      <<"k","g","/","(","m","*","s","^","2",")">>,
      <<"m","e","t","r","e">>,
      <<"k","o","h","m","/","s">>,
      <<"m","g","^","2","s">> }

Inputs == UNION {[1..n -> Alphabet] : n \in 0..MaxLen} \cup Examples

Frame(s) == [s |-> s, result |-> <<>>, pospow |-> TRUE]

Top == stack[Len(stack)]

SetTop(f) == [stack EXCEPT ![Len(stack)] = f]

RECURSIVE TryLen(_, _)
\* for x in range(len(s), 0, -1): the first x whose s[:x] resolves, else 0.
TryLen(s, x) ==
    IF x = 0 THEN 0
    ELSE IF Resolves(PySlice(s, 0, x)) THEN x ELSE TryLen(s, x - 1)

RECURSIVE TryLenUp(_, _)
TryLenUp(s, x) ==
    IF x > Len(s) THEN 0
    ELSE IF Resolves(PySlice(s, 0, x)) THEN x ELSE TryLenUp(s, x + 1)

\* The token search run upwards, from length 1: the shortest match.
MatchLenShortest(s) == TryLenUp(s, 1)

\* The length of the unit token at the head of s (0: the for loop runs out).
MatchLen(s) == TryLen(s, Len(s))

\* The sign of the exponent left alone.
SignedPowerUnsigned(power, pospow) == power

\* if not pospow: power = power * (-1)
SignedPower(power, pospow) == IF pospow THEN power ELSE power * (-1)

\* The group's triples left alone.
GroupTriplesUnsigned(inside, pospow) == inside

\* if not pospow: inside = [(prefix, unit, -power) for ... in inside]
GroupTriples(inside, pospow) ==
    IF pospow THEN inside
    ELSE [i \in 1..Len(inside) |->
            <<inside[i][1], inside[i][2], 0 - inside[i][3]>>]

\* s = s[end+1:] after a group, end = s.find(")")
AfterGroup(s) == PyFrom(s, PyFind(s, ")") + 1)

\* s[1:end], the text handed to the recursive call
InsideGroup(s) == PySlice(s, 1, PyFind(s, ")"))

\* pospow after a triple or a group was appended
PospowAfterTerm == TRUE

\* if s.startswith("*") or s.startswith(" "): s = s[1:]
Separator ==
    /\ status = "running" /\ Len(Top.s) > 0
    /\ Top.s[1] \in {"*", " "}
    /\ stack' = SetTop([Top EXCEPT !.s = PyFrom(Top.s, 1)])
    /\ UNCHANGED <<input, status, oper, lhs, rhs, value>>

\* The slash handled without the check for a pending slash.
SlashUnchecked ==
    /\ status = "running" /\ Len(Top.s) > 0
    /\ Top.s[1] = "/"
    /\ stack' = SetTop([Top EXCEPT !.pospow = FALSE, !.s = PyFrom(Top.s, 1)])
    /\ UNCHANGED <<input, status, oper, lhs, rhs, value>>

\* if s.startswith("/"): raise on a second slash, else pospow = False
Slash ==
    /\ status = "running" /\ Len(Top.s) > 0
    /\ Top.s[1] = "/"
    /\ IF Top.pospow = FALSE
       THEN /\ status' = "ConsecutiveSlash"
            /\ UNCHANGED stack
       ELSE /\ stack' = SetTop([Top EXCEPT !.pospow = FALSE, !.s = PyFrom(Top.s, 1)])
            /\ UNCHANGED status
    /\ UNCHANGED <<input, oper, lhs, rhs, value>>

\* if s.startswith("("): the recursive call on s[1:end] begins
GroupCall ==
    /\ status = "running" /\ Len(Top.s) > 0
    /\ Top.s[1] = "("
    /\ stack' = Append(stack, Frame(InsideGroup(Top.s)))
    /\ UNCHANGED <<input, status, oper, lhs, rhs, value>>

\* the recursive call returns (its while loop ended) and the caller appends
\* its triples, cuts the group off s and resets pospow
GroupReturn ==
    /\ status = "running" /\ Len(stack) > 1 /\ Len(Top.s) = 0
    /\ LET caller == stack[Len(stack) - 1]
           inside == GroupTriples(Top.result, caller.pospow)
       IN  /\ Len(caller.result) + Len(inside) <= MaxResult
           /\ stack' = [SubSeq(stack, 1, Len(stack) - 1) EXCEPT ![Len(stack) - 1] =
                          [s |-> AfterGroup(caller.s),
                           result |-> caller.result \o inside,
                           pospow |-> PospowAfterTerm]]
    /\ UNCHANGED <<input, status, oper, lhs, rhs, value>>

\* for x in range(len(s), 0, -1): ... else: raise
UnitToken ==
    /\ status = "running" /\ Len(Top.s) > 0
    /\ Top.s[1] \notin {"*", " ", "/", "("}
    /\ LET x == MatchLen(Top.s)
           thisunit == search_prefixed(PySlice(Top.s, 0, x))
           rest == PyFrom(Top.s, x)
           caret == StartsWith(rest, "^")
           power == IF caret THEN DigitValue(rest[2]) ELSE 1
       IN  IF x = 0 THEN
                status' = "UnknownUnit" /\ UNCHANGED stack
           ELSE IF caret /\ Len(rest) < 2 THEN
                status' = "IndexError" /\ UNCHANGED stack
           ELSE IF caret /\ rest[2] \notin Digits THEN
                status' = "ValueError" /\ UNCHANGED stack
           ELSE /\ stack' = SetTop(
                      [s |-> IF caret THEN PyFrom(rest, 2) ELSE rest,
                       result |-> Append(Top.result,
                           <<thisunit[1], thisunit[2], SignedPower(power, Top.pospow)>>),
                       pospow |-> PospowAfterTerm])
                /\ UNCHANGED status
    /\ UNCHANGED <<input, oper, lhs, rhs, value>>

\* the outermost while loop ends: return result, and SICompoundUnit.__new__
\* makes the tuple of it
Return ==
    /\ status = "running" /\ Len(stack) = 1 /\ Len(Top.s) = 0
    /\ status' = "done"
    /\ value' = SICompoundUnit(Top.result)
    /\ UNCHANGED <<input, stack, oper, lhs, rhs>>

Init ==
    /\ input \in Inputs
    /\ stack = <<Frame(input)>>
    /\ status = "running"
    /\ oper = "none" /\ lhs = NoValue /\ rhs = NoValue /\ value = NoValue

Next ==
    \/ Separator
    \/ Slash
    \/ GroupCall
    \/ GroupReturn
    \/ UnitToken
    \/ Return

Spec == Init /\ [][Next]_vars

\* ------------------------------------------------------------------ __str__
\* unit.name == ['kilogram']
IsKilogram(u) == SIUnits[u].name = << Txt(<<"k","i","l","o","g","r","a","m">>) >>

\* The pass of __str__ without power = power * -1.
StrTermSignKept(tr) ==
    LET prefix == tr[1]
        unit   == tr[2]
        body   == IF IsKilogram(unit)
                  THEN (IF RatMul(prefix, Thousand) # One
                        THEN prefix_from_value(RatMul(prefix, Thousand)) ELSE <<>>)
                       \o <<"g">>
                  ELSE (IF prefix # One THEN prefix_from_value(prefix) ELSE <<>>)
                       \o preferred_symbol(unit, TRUE)
    IN  (IF tr[3] < 0 THEN <<"/">> ELSE <<>>) \o body
        \o (IF tr[3] # 1 THEN <<"^">> \o FormatInt(tr[3]) ELSE <<>>)

\* What one pass of the loop of __str__ adds to ret.
StrTerm(tr) ==
    LET prefix == tr[1]
        unit   == tr[2]
        neg    == tr[3] < 0
        power  == IF neg THEN tr[3] * (-1) ELSE tr[3]
        body   == IF IsKilogram(unit)
                  THEN (IF RatMul(prefix, Thousand) # One
                        THEN prefix_from_value(RatMul(prefix, Thousand)) ELSE <<>>)
                       \o <<"g">>
                  ELSE (IF prefix # One THEN prefix_from_value(prefix) ELSE <<>>)
                       \o preferred_symbol(unit, TRUE)
    IN  (IF neg THEN <<"/">> ELSE <<>>) \o body
        \o (IF power # 1 THEN <<"^">> \o FormatInt(power) ELSE <<>>)

RECURSIVE StrTerms(_)
StrTerms(t) == IF t = <<>> THEN <<>> ELSE StrTerm(Head(t)) \o StrTerms(Tail(t))

\* SICompoundUnit.__str__
Str(t) ==
    LET ret == StrTerms(t)
    IN  IF StartsWith(ret, "/") THEN <<"1">> \o ret ELSE ret

\* ---------------------------------------------------------------------- tex
\* fixed_units: the kilogram becomes 1000 times the fake gram
fixed_units(t) ==
    [i \in 1..Len(t) |->
        IF IsKilogram(t[i][2])
        THEN <<RatMul(t[i][1], Thousand), "fakegram", t[i][3]>>
        ELSE t[i]]

\* numerator = [(f,u,e) for (f,u,e) in fixed_units if e>0]
numerator(t) == SelectSeq(fixed_units(t), LAMBDA tr : tr[3] > 0)

\* denominator = [(f,u,-e) for (f,u,e) in fixed_units if e<0]
denominator(t) ==
    LET neg == SelectSeq(fixed_units(t), LAMBDA tr : tr[3] < 0)
    IN  [i \in 1..Len(neg) |-> <<neg[i][1], neg[i][2], 0 - neg[i][3]>>]

\* One term of numerator_string or denominator_string.
TexTerm(tr) ==
    LET f == IF tr[1] # One THEN prefix_from_value(tr[1]) ELSE <<>>
        u == IF tr[2] = "fakegram" THEN <<"g">> ELSE UnitTex(tr[2])
    IN  IF tr[3] # 1
        THEN <<"{">> \o f \o u \o <<"}", "^">> \o FormatInt(tr[3])
        ELSE f \o u

RECURSIVE TexJoin(_)
\* " ".join(...)
TexJoin(l) ==
    IF l = <<>> THEN <<>>
    ELSE IF Len(l) = 1 THEN TexTerm(l[1])
    ELSE TexTerm(l[1]) \o <<" ">> \o TexJoin(Tail(l))

\* SICompoundUnit.tex
Tex(t) ==
    LET num == IF TexJoin(numerator(t)) = <<>> THEN <<"1">>
               ELSE TexJoin(numerator(t))
    IN  IF denominator(t) # <<>>
        THEN <<"{">> \o num \o <<" ", "\\", "o", "v", "e", "r", " ">>
             \o TexJoin(denominator(t)) \o <<"}">>
        ELSE <<"{">> \o num \o <<"}">>

\* ----------------------------------------------------------------- algebra
Triple(u, e) == <<One, u, e>>

\* (prefix, unit, -power) for every triple
Negated(t) == [i \in 1..Len(t) |-> <<t[i][1], t[i][2], 0 - t[i][3]>>]

\* SIUnit.__div__ (and __truediv__)
SIUnit__div__(self, other) ==
    IF other.kind = "unit"
    THEN SICompoundUnit(<<Triple(self.u, 1), Triple(other.u, -1)>>)
    ELSE NotImplemented

\* SIUnit.__rdiv__ (and __rtruediv__)
SIUnit__rdiv__(self, other) ==
    IF other = PyInt(1)
    THEN SICompoundUnit(<<Triple(self.u, -1)>>)
    ELSE NotImplemented

\* SIUnit.__pow__
SIUnit__pow__(self, exponent) == SICompoundUnit(<<Triple(self.u, exponent)>>)

\* SIUnit.__mul__
SIUnit__mul__(self, other) ==
    IF other.kind = "unit"
    THEN SICompoundUnit(<<Triple(self.u, 1), Triple(other.u, 1)>>)
    ELSE NotImplemented

\* SICompoundUnit.__div__ (and __truediv__)
SICompoundUnit__div__(self, other) ==
    IF other.kind = "unit"
    THEN SICompoundUnit(self.t \o <<Triple(other.u, -1)>>)
    ELSE IF other.kind = "compound"
    THEN SICompoundUnit(self.t \o Negated(other.t))
    ELSE NotImplemented

\* SICompoundUnit.__rdiv__ (and __rtruediv__)
SICompoundUnit__rdiv__(self, other) ==
    IF other = PyInt(1)
    THEN SICompoundUnit(Negated(self.t))
    ELSE IF other.kind = "unit"
    THEN SICompoundUnit(<<Triple(other.u, -1)>> \o self.t)
    ELSE NotImplemented

\* SICompoundUnit.__pow__
SICompoundUnit__pow__(self, exponent) ==
    SICompoundUnit([i \in 1..Len(self.t) |->
        <<self.t[i][1], self.t[i][2], self.t[i][3] * exponent>>])

\* SICompoundUnit.__mul__
SICompoundUnit__mul__(self, other) ==
    IF other.kind = "unit"
    THEN SICompoundUnit(self.t \o <<Triple(other.u, 1)>>)
    ELSE IF other.kind = "compound"
    THEN SICompoundUnit(self.t \o other.t)
    ELSE NotImplemented

\* __rmul__ with the operand put after self's triples, as __mul__ does.
SICompoundUnit__rmul__Appending(self, other) ==
    IF other.kind = "unit"
    THEN SICompoundUnit(self.t \o <<Triple(other.u, 1)>>)
    ELSE NotImplemented

\* SICompoundUnit.__rmul__
SICompoundUnit__rmul__(self, other) ==
    IF other.kind = "unit"
    THEN SICompoundUnit(<<Triple(other.u, 1)>> \o self.t)
    ELSE NotImplemented

\* The interpreter's evaluation of a binary operator: the left operand's
\* method, then, when that declines and the operand types differ, the right
\* operand's reflected method, then TypeError.  Forward and Reflected are
\* the methods by kind of operand; an int declines every unit operand and
\* an SIUnit has no __rmul__.
Dispatch(forward, reflected, a, b) ==
    IF forward # NotImplemented THEN forward
    ELSE IF a.kind # b.kind /\ reflected # NotImplemented THEN reflected
    ELSE TypeError

\* a * b
multiply(a, b) ==
    Dispatch(IF a.kind = "unit" THEN SIUnit__mul__(a, b)
             ELSE IF a.kind = "compound" THEN SICompoundUnit__mul__(a, b)
             ELSE NotImplemented,
             IF b.kind = "compound" THEN SICompoundUnit__rmul__(b, a)
             ELSE NotImplemented,
             a, b)

\* a / b
divide(a, b) ==
    Dispatch(IF a.kind = "unit" THEN SIUnit__div__(a, b)
             ELSE IF a.kind = "compound" THEN SICompoundUnit__div__(a, b)
             ELSE NotImplemented,
             IF b.kind = "unit" THEN SIUnit__rdiv__(b, a)
             ELSE IF b.kind = "compound" THEN SICompoundUnit__rdiv__(b, a)
             ELSE NotImplemented,
             a, b)

\* a ** n
power(a, n) ==
    IF a.kind = "unit" THEN SIUnit__pow__(a, n)
    ELSE IF a.kind = "compound" THEN SICompoundUnit__pow__(a, n)
    ELSE TypeError

\* The atomic units the algebra actions draw operands from.
AlgUnits == {SIUnit("metre"), SIUnit("second")}

\* The operands at hand: the atomic units and the value built so far.
Operands == AlgUnits \cup (IF value.kind = "compound" THEN {value} ELSE {})

Fits(v) ==
    /\ v.kind = "compound"
    /\ Len(v.t) <= MaxTerms
    /\ \A i \in 1..Len(v.t) : v.t[i][3] \in (0 - MaxExp)..MaxExp

Applied(o, a, b, v) ==
    /\ Fits(v)
    /\ oper' = o /\ lhs' = a /\ rhs' = b /\ value' = v
    /\ UNCHANGED <<input, stack, status>>

Multiply == \E a \in Operands, b \in Operands : Applied("mul", a, b, multiply(a, b))

Divide ==
    \E a \in Operands \cup {PyInt(1)}, b \in Operands :
        Applied("div", a, b, divide(a, b))

Power ==
    \E a \in Operands, n \in (0 - MaxExp)..MaxExp :
        Applied("pow", a, PyInt(n), power(a, n))

InitAlg ==
    /\ input = <<>> /\ stack = <<>> /\ status = "idle"
    /\ oper = "none" /\ lhs = NoValue /\ rhs = NoValue /\ value = NoValue

NextAlg ==
    \/ Multiply
    \/ Divide
    \/ Power

SpecAlg == InitAlg /\ [][NextAlg]_vars

\* ------------------------------------------------------- claims: the algebra
\* The triples an operand contributes: an atomic unit is (1, unit, 1).
TriplesOf(v) == IF v.kind = "unit" THEN <<Triple(v.u, 1)>> ELSE v.t

\* The number of triples of an operand (none for the int 1 or an exponent).
SizeOf(v) == IF v.kind \in {"unit", "compound"} THEN Len(TriplesOf(v)) ELSE 0

\* C1: for an atomic unit U and a compound value B, U / B is the triple
\* (1, U, 1) followed by B's triples in order, every exponent negated.
C1_UnitOverCompound ==
    (oper = "div" /\ lhs.kind = "unit" /\ rhs.kind = "compound")
        => value = SICompoundUnit(<<Triple(lhs.u, 1)>> \o Negated(rhs.t))

\* C7: multiply(A, B) is exactly A's triples followed by B's triples for
\* every pairing of atomic and compound operands, and the result of any
\* multiply, divide or power has as many triples as its operands together:
\* nothing is merged.
C7_NoMerging ==
    /\ oper = "mul" => value = SICompoundUnit(TriplesOf(lhs) \o TriplesOf(rhs))
    /\ oper \in {"mul", "div", "pow"} =>
          /\ value.kind = "compound"
          /\ Len(value.t) = SizeOf(lhs) + SizeOf(rhs)

\* An atomic unit times a compound value that already holds that unit: the
\* unit is there twice.
C7_Witness ==
    /\ oper = "mul" /\ lhs.kind = "unit" /\ rhs.kind = "compound"
    /\ \E i \in 1..Len(rhs.t) : rhs.t[i][2] = lhs.u
    /\ Cardinality({i \in 1..Len(value.t) : value.t[i][2] = lhs.u}) >= 2

\* C10: the TeX renderer's numerator and denominator partition the triples
\* of every value: each triple is in exactly one of the two lists.
C10_TexPartition ==
    value.kind = "compound" =>
        Len(numerator(value.t)) + Len(denominator(value.t)) = Len(value.t)

\* -------------------------------------------------------- claims: the parser
Milli == Rat(1, 1000)

\* The input holds no parenthesis.
GroupFree(s) == \A i \in 1..Len(s) : s[i] \notin {"(", ")"}

\* What the outermost call has consumed of the input so far.
Consumed == SubSeq(input, 1, Len(input) - Len(stack[1].s))

\* In the text c, a "/" was read after the last unit token: the last
\* character of c that is no separator is a "/".
SlashPending(c) ==
    \E i \in 1..Len(c) :
        c[i] = "/" /\ \A j \in (i+1)..Len(c) : c[j] \in {"*", " "}

\* This step appended one triple for a unit token to the running call.
TokenAppended ==
    /\ status = "running" /\ status' = "running"
    /\ Len(stack') = Len(stack)
    /\ Len(Top'.result) = Len(Top.result) + 1

\* The triple this step appended.
NewTriple == Top'.result[Len(Top'.result)]

\* The text this step took off the head of s.
TakenText == SubSeq(Top.s, 1, Len(Top.s) - Len(Top'.s))

\* The exponent the taken text spells: the digit after "^", 1 without "^".
SpelledPower ==
    IF Len(TakenText) >= 3 /\ TakenText[Len(TakenText) - 1] = "^"
    THEN DigitValue(TakenText[Len(TakenText)])
    ELSE 1

KgNkmPerM == <<"k","g","N","k","m","/","m">>

\* C4 as claimed: in a group-free input the triple of a unit token has a
\* negative exponent if and only if a "/" was read since the previous token.
C4_NegativeIffSlash ==
    [][ (GroupFree(input) /\ TokenAppended) =>
            (NewTriple[3] < 0 <=> SlashPending(Consumed)) ]_vars

\* C4, amended: in a group-free input the flag is set exactly while a "/"
\* was read since the previous token; a token's triple is appended at the
\* end of the list with the exponent its text spells (1 without "^"),
\* negated if and only if a "/" was read since the previous token; the flag
\* is clear after every appended triple; and "kgNkm/m" yields
\* [(1, kilogram, 1), (1, newton, 1), (1000, metre, 1), (1, metre, -1)].
C4_SlashNegatesNext ==
    /\ []((GroupFree(input) /\ status = "running") =>
            (stack[1].pospow = FALSE <=> SlashPending(Consumed)))
    /\ [][ (GroupFree(input) /\ TokenAppended) =>
            /\ Top'.result = Append(Top.result, NewTriple)
            /\ NewTriple[3] = IF SlashPending(Consumed)
                              THEN 0 - SpelledPower ELSE SpelledPower
            /\ Top'.pospow = TRUE ]_vars
    /\ []((input = KgNkmPerM /\ status = "done") =>
            value.t = << <<One, "kilogram", 1>>, <<One, "newton", 1>>,
                         <<Thousand, "metre", 1>>, <<One, "metre", -1>> >>)

\* "kgNkm/m" is parsed to the end and its last triple is the negated one.
C4_Witness ==
    /\ input = KgNkmPerM /\ status = "done"
    /\ Len(value.t) = 4 /\ value.t[4][3] = -1 /\ value.t[3][3] = 1

\* C5: a "/" read while the flag of the running call is set (in a
\* group-free input: while a "/" was read since the previous token) ends
\* the parse with the consecutive-slash error and no triples are returned;
\* "m//s" fails so.
C5_ConsecutiveSlash ==
    /\ [][ (status = "running" /\ StartsWith(Top.s, "/") /\ Top.pospow = FALSE)
              => status' = "ConsecutiveSlash" ]_vars
    /\ [][ (GroupFree(input) /\ status = "running" /\ StartsWith(Top.s, "/")
              /\ SlashPending(Consumed)) => status' = "ConsecutiveSlash" ]_vars
    /\ [](status = "ConsecutiveSlash" => value = NoValue)
    /\ []((input = <<"m","/","/","s">> /\ status # "running")
              => status = "ConsecutiveSlash")

\* "m//s" has failed at its second slash, the metre already read.
C5_Witness ==
    /\ input = <<"m","/","/","s">> /\ status = "ConsecutiveSlash"
    /\ Top.s = <<"/","s">> /\ Top.result = << <<One, "metre", 1>> >>

\* C9: the token taken at a token position is the longest prefix of the
\* remaining string that search_prefixed resolves, and the parse ends with
\* the unknown-token error exactly when no prefix of length 1 or more does.
C9_LongestMatch ==
    /\ [][ TokenAppended =>
            \E x \in 1..Len(Top.s) :
                /\ Resolves(PySlice(Top.s, 0, x))
                /\ \A y \in (x+1)..Len(Top.s) : ~Resolves(PySlice(Top.s, 0, y))
                /\ <<NewTriple[1], NewTriple[2]>> = search_prefixed(PySlice(Top.s, 0, x))
                /\ Top'.s \in {PyFrom(Top.s, x), PyFrom(Top.s, x + 2)} ]_vars
    /\ [][ (status = "running" /\ Len(Top.s) > 0
              /\ Top.s[1] \notin {"*", " ", "/", "("}) =>
            (status' = "UnknownUnit" <=>
                \A y \in 1..Len(Top.s) : ~Resolves(PySlice(Top.s, 0, y))) ]_vars

\* "m/ms": the second token is the millisecond, not the metre.
C9_Witness ==
    /\ input = <<"m","/","m","s">> /\ status = "done"
    /\ value.t = << <<One, "metre", 1>>, <<Milli, "second", -1>> >>

\* C2: a "(" with no ")" after it ends the parse with the malformed-group
\* error.
C2_UnmatchedParenthesis ==
    [][ (status = "running" /\ StartsWith(Top.s, "(") /\ PyFind(Top.s, ")") = -1)
            => status' = "MalformedGroup" ]_vars

\* C6: every pass of the main loop of a call either shortens the string the
\* call has left or ends the parse (a pass that reads a group is over when
\* the recursive call has returned).
C6_PassShortens ==
    [][ status = "running" =>
            \/ status' # "running"
            \/ Len(stack') > Len(stack)
            \/ Len(stack'[Len(stack')].s) < Len(stack[Len(stack')].s) ]_vars

GroupSquared == <<"(","m","/","s",")","^","2">>
OverGroupSquared == <<"/","(","m","/","s",")","^","2">>

\* C3 as claimed: a group followed by "^" and a digit d parses, and every
\* triple of the group has its exponent multiplied by d (and negated when
\* the flag was set at the "(").
C3_GroupPower ==
    /\ (input = GroupSquared /\ status # "running") =>
          /\ status = "done"
          /\ value.t = << <<One, "metre", 2>>, <<One, "second", -2>> >>
    /\ (input = OverGroupSquared /\ status # "running") =>
          /\ status = "done"
          /\ value.t = << <<One, "metre", -2>>, <<One, "second", 2>> >>

\* Some ")" of s is followed at once by "^".
CaretAfterGroup(s) == \E i \in 1..(Len(s) - 1) : s[i] = ")" /\ s[i+1] = "^"

\* C3, amended: when a group ends, its triples are appended with their
\* exponents as they are, negated when the flag was set at the "(", and the
\* text after the ")" is left as it is; a "^" at the head of what is left
\* ends the parse with the unknown-token error, so no input with "^" right
\* after a ")" is ever parsed to the end.
C3_GroupPowerRejected ==
    /\ [][ (status = "running" /\ Len(stack') = Len(stack) - 1) =>
            LET caller == stack[Len(stack) - 1]
            IN  /\ Top'.result = caller.result \o
                      (IF caller.pospow THEN Top.result ELSE Negated(Top.result))
                /\ Top'.s = PyFrom(caller.s, PyFind(caller.s, ")") + 1) ]_vars
    /\ [][ (status = "running" /\ StartsWith(Top.s, "^"))
              => status' = "UnknownUnit" ]_vars
    /\ []((status = "done") => ~CaretAfterGroup(input))

\* "/(m/s)^2" has failed at the "^", the group's triples appended negated.
C3_Witness ==
    /\ input = OverGroupSquared /\ status = "UnknownUnit"
    /\ Top.s = <<"^","2">>
    /\ Top.result = << <<One, "metre", -1>>, <<One, "second", 1>> >>

\* -------------------------------------------------- claims: the round trip
\* An input made of unit tokens only: no separator, no group, no slash, and
\* no exponent that is not positive.
OnlyTokens(s) ==
    /\ Len(s) > 0
    /\ \A i \in 1..Len(s) : s[i] \notin {"*", " ", "(", ")", "/"}
    /\ \A i \in 1..(Len(s) - 1) : s[i] = "^" => s[i+1] # "0"

\* C8 as claimed: an input made of resolvable unit tokens only, with
\* positive exponents, is rendered back as it was written.
C8_RoundTrip ==
    (status = "done" /\ OnlyTokens(input)) => Str(value.t) = input

RECURSIVE FlatTokens(_)
\* The tokens the parser cuts a group-free, separator-free s into, each
\* with the digit of its "^" shorthand (<<>> without one).
FlatTokens(s) ==
    IF s = <<>> THEN <<>>
    ELSE IF s[1] = "/" THEN FlatTokens(Tail(s))
    ELSE LET x == MatchLen(s)
             rest == PyFrom(s, x)
             caret == StartsWith(rest, "^") /\ Len(rest) >= 2
         IN  IF x = 0 THEN <<>>
             ELSE <<[text |-> PySlice(s, 0, x),
                     digit |-> IF caret THEN <<rest[2]>> ELSE <<>>]>>
                  \o FlatTokens(IF caret THEN PyFrom(rest, 2) ELSE rest)

\* The spelling the renderer has for a (prefix, unit) pair: the prefix code,
\* if any, and the preferred symbol; the kilogram as a prefixed gram.
CanonicalSpelling(pu) ==
    IF IsKilogram(pu[2])
    THEN (IF pu[1] = Milli THEN <<>>
          ELSE prefix_from_value(RatMul(pu[1], Thousand))) \o <<"g">>
    ELSE (IF pu[1] = One THEN <<>> ELSE prefix_from_value(pu[1]))
         \o preferred_symbol(pu[2], TRUE)

\* s is written the way the renderer writes: no separator and no group,
\* every token in its canonical spelling, "^" only with a digit from 2 to
\* 9, and every "/" right before a token and not at the start.
CanonicalText(s) ==
    /\ Len(s) > 0
    /\ \A i \in 1..Len(s) : s[i] \notin {"*", " ", "(", ")"}
    /\ s[1] # "/" /\ s[Len(s)] # "/"
    /\ \A i \in 1..(Len(s) - 1) : s[i] = "/" => s[i+1] # "/"
    /\ \A i \in 1..Len(FlatTokens(s)) :
          LET tok == FlatTokens(s)[i]
          IN  /\ tok.text = CanonicalSpelling(search_prefixed(tok.text))
              /\ tok.digit \notin {<<"0">>, <<"1">>}

\* C8, amended: an input written the way the renderer writes is rendered
\* back as it was written, the kilogram through the gram included.
C8_CanonicalRoundTrip ==
    (status = "done" /\ CanonicalText(input)) => Str(value.t) = input

\* "mg^2s" and "km/s" style inputs: a gram token and a slash are rendered
\* back.
C8_Witness ==
    /\ status = "done" /\ CanonicalText(input)
    /\ input \in { <<"k","m","/","s">>, <<"m","g","^","2","s">> }
    /\ Str(value.t) = input

====
